---- MODULE Spec2Model ----
(***************************************************************************)
(* The Accolade sales portal: the REST handlers of server.js and of the    *)
(* multi-event ("batch") server, over the tables Members, Events,          *)
(* Students and Registrations of the database service and the in-memory    *)
(* session map.                                                            *)
(*                                                                         *)
(* Every handler is an async function: it runs without interruption up to  *)
(* its next `await db...`, so each database round trip is one step of the  *)
(* handler and the steps of concurrent requests interleave.                *)
(*                                                                         *)
(* Strings are sequences of one-character strings.  Row identifiers        *)
(* (UUIDs) are integers: a positive integer is a well-formed identifier,   *)
(* 0 is a well-formed identifier that designates no row, a negative        *)
(* integer is a value the UUID pattern rejects.                            *)
(***************************************************************************)
EXTENDS Integers, Sequences, FiniteSets, TLC

\* ------------------------------------------------------------------ bounds
\* Requests started in one behaviour.
MaxReqs == 2
\* Longest event_ids array of a batch registration.
MaxBatch == 2
\* Tokens issued in one behaviour of the session specification.
MaxTokens == 2
\* Last hour of the simulated clock.
MaxClock == 13

\* Longest string over SanitizeChars handed to sanitize.
MaxStr == 4

\* -------------------------------------------------------- program constants
\* sanitize keeps at most this many characters.
SanitizeMax == 500
\* Session lifetime in hours: 12 * 60 * 60 * 1000 ms.
SessionHours == 12
\* isPhone: exactly this many digits.
PhoneDigits == 10
\* isEmail: at most this many characters.
EmailMax == 254
\* A member's password has at least this many characters.
MinPassword == 8

\* ------------------------------------------------------------ value domains
Procs == {1, 2}
\* A field the body does not carry (undefined), where the field is an id.
Undefined == -2
\* null of a text column, distinct from the empty string <<>>.
Null == <<"null">>

Digits == {"0", "1", "2", "3", "4", "5", "6", "7", "8", "9"}
Whitespace == {" "}
\* The backquote character (a string literal cannot hold it).
Backquote == "bq"
Dangerous == {"<", ">", "\"", "'", Backquote}

Upper == <<"A", "B", "S", "T">>
Lower == <<"a", "b", "s", "t">>

\* Events 1 and 2 have rows when the server starts; 3 never has one.
EventIds == {1, 2, 3}
Costs == {10, 20}

Phone1 == <<"9", "9", "9", "9", "9", "9", "9", "9", "9", "1">>
Phone2 == <<"9", "9", "9", "9", "9", "9", "9", "9", "9", "2">>
Phones == {Phone1, Phone2}
\* The forms a request body is filled from:
\* <<name, email, payment_method, transaction_id>>; the batch registration
\* uses the first two.
BatchForms == {<<<<"a">>, <<"a", "@">>, "cash", Null>>,
               <<<<"<", "b">>, <<"B", "@">>, "upi", <<"t">>>>}
Forms == BatchForms \cup {<<<<"c">>, <<"B", "@">>, "cash", Null>>,
                          <<<<"a">>, <<"a", "@">>, "upi", <<"<">>>>}
\* The phone number that comes with a form where the two are not chosen apart.
PhoneOf(f) == IF f[2] = <<"a", "@">> THEN Phone1 ELSE Phone2
\* The event_ids arrays of a batch registration: up to MaxBatch event ids.
EventIdArrays == UNION {[1..n -> EventIds] : n \in 1..MaxBatch}
\* External student codes of the batch server.
Codes == {<<"s">>, <<"T">>}

Min(a, b) == IF a < b THEN a ELSE b

\* s without its elements that are in drop.
SeqRemove(s, drop) == SelectSeq(s, LAMBDA c : c \notin drop)

Range(s) == {s[i] : i \in 1..Len(s)}

\* --------------------------------------------------------------- validators
isUUID(v) == v >= 0

isPhone(v) == Len(v) = PhoneDigits /\ \A i \in 1..Len(v) : v[i] \in Digits

isEmail(v) == "@" \in Range(v) /\ Len(v) <= EmailMax

RECURSIVE trimStart(_)
trimStart(s) ==
  IF s # <<>> /\ Head(s) \in Whitespace THEN trimStart(Tail(s)) ELSE s

RECURSIVE trimEnd(_)
trimEnd(s) ==
  IF s # <<>> /\ s[Len(s)] \in Whitespace THEN trimEnd(SubSeq(s, 1, Len(s) - 1))
  ELSE s

trim(s) == trimEnd(trimStart(s))

sanitize(v) ==
  LET stripped == SeqRemove(trim(v), Dangerous)
  IN  SubSeq(stripped, 1, Min(Len(stripped), SanitizeMax))

mapChar(c, from, to) ==
  IF \E i \in 1..Len(from) : from[i] = c
  THEN to[CHOOSE i \in 1..Len(from) : from[i] = c]
  ELSE c

toLowerCase(s) == [i \in 1..Len(s) |-> mapChar(s[i], Upper, Lower)]
toUpperCase(s) == [i \in 1..Len(s) |-> mapChar(s[i], Lower, Upper)]

\* !v of a string or null field of the body.
falsy(v) == v = <<>> \/ v = Null

\* ------------------------------------------------------ the database service
\* Error codes of the persistence layer: "" is success, 23505 a uniqueness
\* violation, 23503 a foreign-key violation.
NoError == ""
UniqueViolation == "23505"
ForeignKeyViolation == "23503"

\* Students: phone_number and email are unique, and so is the external
\* student_id code of the batch server (null codes never collide).
StudentsUniqueOk(S, id, row) ==
  \A o \in DOMAIN S \ {id} :
    /\ S[o].phone_number # row.phone_number
    /\ S[o].email # row.email
    /\ (row.student_id = Null \/ S[o].student_id # row.student_id)

\* db.from('Students').select('id').eq(col, v).maybeSingle(): the id, or 0.
StudentsFind(S, col, v) ==
  IF \E i \in DOMAIN S : S[i][col] = v
  THEN CHOOSE i \in DOMAIN S : S[i][col] = v
  ELSE 0

\* db.from('Students').insert(row).select().single()
StudentsInsert(S, newId, row) ==
  IF StudentsUniqueOk(S, newId, row)
  THEN [error |-> NoError, id |-> newId, rows |-> (newId :> row) @@ S]
  ELSE [error |-> UniqueViolation, id |-> 0, rows |-> S]

\* db.from('Students').update(fields).eq('id', id): fields is a record over
\* some of the columns; no row with that id is no error.
StudentsUpdate(S, id, fields) ==
  IF id \notin DOMAIN S THEN [error |-> NoError, rows |-> S]
  ELSE LET row == fields @@ S[id]
       IN  IF StudentsUniqueOk(S, id, row)
           THEN [error |-> NoError, rows |-> [S EXCEPT ![id] = row]]
           ELSE [error |-> UniqueViolation, rows |-> S]

\* Registrations: (student_id, event_id) is unique; student_id, event_id and
\* member_id reference Students, Events and Members.
\* The table without its uniqueness constraint.
RegistrationsPairFreeUnconstrained(R, id, row) == TRUE

RegistrationsPairFree(R, id, row) ==
  \A o \in DOMAIN R \ {id} :
    ~(R[o].student_id = row.student_id /\ R[o].event_id = row.event_id)

RegistrationsRefsOk(row, S, E, M) ==
  /\ row.student_id \in DOMAIN S
  /\ row.event_id \in DOMAIN E
  /\ row.member_id \in DOMAIN M

\* An insert that checks each row against the table only, not against the
\* other rows of the statement.
RegistrationsInsertRowByRow(R, first, rows, S, E, M) ==
  LET n == Len(rows)
      unique == \A i \in 1..n : RegistrationsPairFree(R, 0, rows[i])
      refs == \A i \in 1..n : RegistrationsRefsOk(rows[i], S, E, M)
  IN  IF ~unique THEN [error |-> UniqueViolation, ids |-> {}, rows |-> R]
      ELSE IF ~refs THEN [error |-> ForeignKeyViolation, ids |-> {}, rows |-> R]
      ELSE [error |-> NoError, ids |-> first..(first + n - 1),
            rows |-> [i \in first..(first + n - 1) |-> rows[i - first + 1]] @@ R]

\* db.from('Registrations').insert(rows): one statement, all rows or none.
\* rows is a sequence; the new rows get the ids first, first + 1, ...
RegistrationsInsert(R, first, rows, S, E, M) ==
  LET n == Len(rows)
      unique == /\ \A i \in 1..n : RegistrationsPairFree(R, 0, rows[i])
                /\ \A i, j \in 1..n :
                     i # j => ~(rows[i].student_id = rows[j].student_id
                                /\ rows[i].event_id = rows[j].event_id)
      refs == \A i \in 1..n : RegistrationsRefsOk(rows[i], S, E, M)
  IN  IF ~unique THEN [error |-> UniqueViolation, ids |-> {}, rows |-> R]
      ELSE IF ~refs THEN [error |-> ForeignKeyViolation, ids |-> {}, rows |-> R]
      ELSE [error |-> NoError, ids |-> first..(first + n - 1),
            rows |-> [i \in first..(first + n - 1) |-> rows[i - first + 1]] @@ R]

\* An update that also hands the row to another member.
RegistrationsUpdateReassigning(R, id, fields, S, E, M) ==
  IF id \notin DOMAIN R THEN [error |-> NoError, rows |-> R]
  ELSE LET row == fields @@ R[id]
           other == CHOOSE m \in DOMAIN M : m # R[id].member_id
       IN  IF ~RegistrationsPairFree(R, id, row)
           THEN [error |-> UniqueViolation, rows |-> R]
           ELSE [error |-> NoError,
                 rows |-> [R EXCEPT ![id] = [row EXCEPT !.member_id = other]]]

\* db.from('Registrations').update(fields).eq('id', id)
RegistrationsUpdate(R, id, fields, S, E, M) ==
  IF id \notin DOMAIN R THEN [error |-> NoError, rows |-> R]
  ELSE LET row == fields @@ R[id]
       IN  IF ~RegistrationsPairFree(R, id, row)
           THEN [error |-> UniqueViolation, rows |-> R]
           ELSE IF ~RegistrationsRefsOk(row, S, E, M)
           THEN [error |-> ForeignKeyViolation, rows |-> R]
           ELSE [error |-> NoError, rows |-> [R EXCEPT ![id] = row]]

\* A select that takes the row it read out of the table.
EventsSelectCostTaking(E, id) ==
  [data |-> IF id \in DOMAIN E THEN E[id] ELSE 0,
   rows |-> [e \in DOMAIN E \ {id} |-> E[e]]]

\* db.from('Events').select('cost').eq('id', id).single(): the cost of the
\* row, or 0 when there is none (costs are positive); the table is as it was.
EventsSelectCost(E, id) ==
  [data |-> IF id \in DOMAIN E THEN E[id] ELSE 0, rows |-> E]

\* db.from('Registrations').delete().eq('id', id)
RegistrationsDelete(R, id) == [i \in DOMAIN R \ {id} |-> R[i]]

\* -------------------------------------------------------------------- state
VARIABLES
  Members,        \* table: id -> [name, email, password, role]
  Events,         \* table: id -> cost
  Students,       \* table: id -> [student_id, name, phone_number, email]
  Registrations,  \* table: id -> [student_id, event_id, member_id,
                  \*               payment_method, transaction_id, amount_paid]
  nextId,         \* the ids the database gives the next Students / Registrations row
  sessions,       \* the Map: token -> [id, name, email, role]
  timers,         \* pending setTimeout callbacks: token -> hour it is due
  issued,         \* token -> hour makeToken issued it (history)
  loggedOut,      \* tokens a successful logout has deleted (history)
  clock,          \* hours since the server started
  lastAuth,       \* [token, ok]: the latest verdict of requireAuth in a session request
  req,            \* per in-flight request: position, body, locals, response
  started,        \* requests started so far
  server,         \* which server runs: "single" (server.js) or "batch"
  adm,            \* the latest request to an admin route and its response
  sanX,           \* a string handed to sanitize
  sanY            \* the results of sanitize applied to it once, twice

db == <<Members, Events, Students, Registrations, nextId>>
auth == <<sessions, timers, issued, loggedOut, clock, lastAuth>>
pure == <<sanX, sanY>>
vars == <<Members, Events, Students, Registrations, nextId,
          sessions, timers, issued, loggedOut, clock, lastAuth, req, started, server,
          adm, sanX, sanY>>

\* crypto.createHash('sha256'): a digest that tells all inputs apart.
sha256(str) == <<"sha256", str>>

Admin1 == [name |-> <<"A">>, email |-> <<"a", "@">>, password |-> sha256("pwA"),
           role |-> "admin"]
Member2 == [name |-> <<"B">>, email |-> <<"b", "@">>, password |-> sha256("pwB"),
            role |-> "member"]

EmptyBody ==
  [id |-> Undefined, student_id |-> Undefined, code |-> <<>>, name |-> <<>>,
   phone |-> <<>>, email |-> <<>>, event_id |-> Undefined, event_ids |-> <<>>,
   payment_method |-> "", transaction_id |-> Null]

\* A request slot.  user is req.user; evData, eventsData, studentId, check,
\* alreadyRegistered and newEventIds are the handler's locals; status, error,
\* count and skipped are the response (status 0: not answered yet).  wStu and
\* wReg record the rows of Students and Registrations the request has changed,
\* stuErr the error of its latest Students write, regErr of its Registrations
\* write.
Idle ==
  [pc |-> "idle", op |-> "none", user |-> [id |-> 0, role |-> ""],
   body |-> EmptyBody, evData |-> 0, eventsData |-> <<>>, studentId |-> 0,
   check |-> 0, alreadyRegistered |-> {}, newEventIds |-> <<>>,
   status |-> 0, error |-> "", count |-> 0, skipped |-> 0,
   wStu |-> {}, wReg |-> {}, stuErr |-> NoError, regErr |-> NoError]

\* res.status(code).json({error}) or res.json({ok: true, ...}): the handler ends.
Respond(r, code, msg) == [r EXCEPT !.pc = "done", !.status = code, !.error = msg]

\* The ids of the rows on which two states of a table differ.
Changed(T1, T2) ==
  {i \in DOMAIN T1 \cup DOMAIN T2 :
     i \notin DOMAIN T1 \/ i \notin DOMAIN T2 \/ T1[i] # T2[i]}

\* The session of the admin (token 1) and of the member (token 2) are open.
LoggedIn(m) == [id |-> m, name |-> IF m = 1 THEN Admin1.name ELSE Member2.name,
                email |-> IF m = 1 THEN Admin1.email ELSE Member2.email,
                role |-> IF m = 1 THEN Admin1.role ELSE Member2.role]

\* No request to an admin route has been answered.
NoAdmin == [op |-> "none", token |-> 0, status |-> 0, n |-> 0]

\* The tables when the server starts: two members, two events, and one
\* student whom the admin has registered for event 1.
InitDb(code) ==
  /\ Members = (1 :> Admin1) @@ (2 :> Member2)
  /\ Events = (1 :> 10) @@ (2 :> 10)
  /\ Students = (1 :> [student_id |-> code, name |-> <<"a">>,
                       phone_number |-> Phone1, email |-> <<"a", "@">>])
  /\ Registrations = (1 :> [student_id |-> 1, event_id |-> 1, member_id |-> 1,
                            payment_method |-> "cash", transaction_id |-> Null,
                            amount_paid |-> 10])
  /\ nextId = [Students |-> 2, Registrations |-> 2, Events |-> 4, Members |-> 3]
  /\ req = [p \in Procs |-> Idle]
  /\ started = 0
  /\ adm = NoAdmin
  /\ sanY = <<>>

\* The state in which the registration routes are exercised: the server has
\* started and the admin and the member have logged in at hour 0.
\* A deletion scheduled an hour late.
dueAtLate(now) == now + SessionHours + 1

\* setTimeout(() => sessions.delete(token), 12 h) set at hour now is due at:
dueAt(now) == now + SessionHours

InitAuth ==
  /\ sessions = (1 :> LoggedIn(1)) @@ (2 :> LoggedIn(2))
  /\ timers = (1 :> dueAt(0)) @@ (2 :> dueAt(0))
  /\ issued = (1 :> 0) @@ (2 :> 0)
  /\ loggedOut = {}
  /\ clock = 0
  /\ lastAuth = [token |-> 0, ok |-> FALSE]

Init == InitDb(Null) /\ InitAuth /\ server = "single" /\ sanX = <<>>

\* ------------------------------------------------------------- middleware
\* A lookup that also wants the member's row to be there still.
requireAuthOfPresentMember(token) ==
  token \in DOMAIN sessions /\ sessions[token].id \in DOMAIN Members

\* requireAuth: the session of the x-session header, if the Map has it.
requireAuth(token) == token \in DOMAIN sessions

\* A handler behind requireAuth begins in slot p with this token and body.
\* Returns the slot after requireAuth.
Begin(op, token, body) ==
  IF requireAuth(token)
  THEN [Idle EXCEPT !.pc = "validate", !.op = op, !.body = body,
                    !.user = [id |-> sessions[token].id, role |-> sessions[token].role]]
  ELSE Respond([Idle EXCEPT !.op = op, !.body = body], 401, "Not logged in.")

\* A new request takes the first slot that holds no request in flight.
Free(p) == req[p].pc \in {"idle", "done"}
CanStart(p) == Free(p) /\ started < MaxReqs /\ \A q \in Procs : q < p => ~Free(q)

Tokens == {0, 1, 2}

\* ------------------------------------------- POST /api/register (server.js)
\* Bodies the validation refuses: a well-formed body with one defect each (a
\* missing name, a missing event, an email without @, an event id that is no
\* UUID, a payment method that is neither cash nor upi, upi without a
\* transaction id).
RegisterDefects ==
  LET b == [EmptyBody EXCEPT !.name = <<"a">>, !.email = <<"a", "@">>,
                             !.phone = Phone1, !.event_id = 2,
                             !.payment_method = "cash"]
  IN  {[b EXCEPT !.name = <<>>], [b EXCEPT !.event_id = Undefined],
       [b EXCEPT !.email = <<"a">>], [b EXCEPT !.event_id = -1],
       [b EXCEPT !.payment_method = "card"], [b EXCEPT !.payment_method = "upi"]}

RegisterBodies ==
  {[EmptyBody EXCEPT !.name = f[1], !.email = f[2], !.phone = ph, !.event_id = ev,
                     !.payment_method = f[3], !.transaction_id = f[4]] :
     f \in Forms, ph \in Phones \cup {<<"1">>}, ev \in EventIds}
    \cup RegisterDefects

\* The validation that lets every body through.
RegisterInvalidNever(b) == ""

\* The checks before the first database access; "" when the body passes.
RegisterInvalid(b) ==
  IF falsy(b.name) \/ falsy(b.phone) \/ falsy(b.email) \/ b.event_id = Undefined
     \/ b.payment_method = ""
  THEN "Missing required fields."
  ELSE IF ~isPhone(b.phone) THEN "Phone must be exactly 10 digits."
  ELSE IF ~isEmail(b.email) THEN "Invalid email address."
  ELSE IF ~isUUID(b.event_id) THEN "Invalid event."
  ELSE IF b.payment_method \notin {"cash", "upi"} THEN "Invalid payment method."
  ELSE IF b.payment_method = "upi" /\ falsy(b.transaction_id)
  THEN "UPI transaction ID required."
  ELSE ""

\* requireAuth, the validation, and the request for the event's cost is sent.
RegisterStart(p) ==
  /\ server = "single"
  /\ CanStart(p)
  /\ \E token \in Tokens, b \in RegisterBodies :
       LET r == Begin("register", token, b)
       IN  req' = [req EXCEPT ![p] =
                     IF r.pc = "done" THEN r
                     ELSE IF RegisterInvalid(b) # "" THEN Respond(r, 400, RegisterInvalid(b))
                     ELSE [r EXCEPT !.pc = "reg_event"]]
  /\ started' = started + 1
  /\ UNCHANGED <<db, auth, server, adm, pure>>

\* Events.select('cost').eq('id', event_id).single()
RegisterEvent(p) ==
  LET r == req[p]
      sel == EventsSelectCost(Events, r.body.event_id)
  IN  /\ r.pc = "reg_event"
      /\ req' = [req EXCEPT ![p] =
                   IF sel.data # 0
                   THEN [r EXCEPT !.pc = "reg_find", !.evData = sel.data]
                   ELSE Respond(r, 400, "Event not found.")]
      /\ Events' = sel.rows
      /\ UNCHANGED <<Members, Students, Registrations, nextId, auth, started, server,
                     adm, pure>>

\* Students.select('id').eq('phone_number', phone).maybeSingle()
RegisterFind(p) ==
  LET r == req[p]
      existing == StudentsFind(Students, "phone_number", r.body.phone)
  IN  /\ r.pc = "reg_find"
      /\ req' = [req EXCEPT ![p] =
                   IF existing # 0
                   THEN [r EXCEPT !.pc = "reg_update", !.studentId = existing]
                   ELSE [r EXCEPT !.pc = "reg_insert"]]
      /\ UNCHANGED <<db, auth, started, server, adm, pure>>

\* existing: Students.update({name, email}).eq('id', studentId); the result
\* of the update is not looked at.
RegisterUpdate(p) ==
  LET r == req[p]
      u == StudentsUpdate(Students, r.studentId,
                          [name |-> sanitize(r.body.name),
                           email |-> toLowerCase(sanitize(r.body.email))])
  IN  /\ r.pc = "reg_update"
      /\ Students' = u.rows
      /\ req' = [req EXCEPT ![p] =
                   [r EXCEPT !.pc = "reg_registration", !.stuErr = u.error,
                             !.wStu = Changed(Students, u.rows)]]
      /\ UNCHANGED <<Members, Events, Registrations, nextId, auth, started, server, adm, pure>>

\* The insert of a handler that goes on to the registration whatever the
\* insert answered.
RegisterInsertUnchecked(p) ==
  LET r == req[p]
      i == StudentsInsert(Students, nextId.Students,
                          [student_id |-> Null, name |-> sanitize(r.body.name),
                           email |-> toLowerCase(sanitize(r.body.email)),
                           phone_number |-> r.body.phone])
  IN  /\ r.pc = "reg_insert"
      /\ Students' = i.rows
      /\ nextId' = IF i.error = NoError
                   THEN [nextId EXCEPT !.Students = @ + 1] ELSE nextId
      /\ req' = [req EXCEPT ![p] =
                   [r EXCEPT !.pc = "reg_registration", !.studentId = i.id,
                             !.stuErr = i.error, !.wStu = Changed(Students, i.rows)]]
      /\ UNCHANGED <<Members, Events, Registrations, auth, started, server, adm, pure>>

\* not existing: Students.insert({name, email, phone_number}).select().single()
RegisterInsert(p) ==
  LET r == req[p]
      i == StudentsInsert(Students, nextId.Students,
                          [student_id |-> Null, name |-> sanitize(r.body.name),
                           email |-> toLowerCase(sanitize(r.body.email)),
                           phone_number |-> r.body.phone])
  IN  /\ r.pc = "reg_insert"
      /\ Students' = i.rows
      /\ nextId' = IF i.error = NoError
                   THEN [nextId EXCEPT !.Students = @ + 1] ELSE nextId
      /\ req' = [req EXCEPT ![p] =
                   IF i.error = UniqueViolation
                   THEN Respond([r EXCEPT !.stuErr = i.error], 400,
                                "Email already used by another student.")
                   ELSE [r EXCEPT !.pc = "reg_registration", !.studentId = i.id,
                                  !.wStu = {i.id}]]
      /\ UNCHANGED <<Members, Events, Registrations, auth, started, server, adm, pure>>

\* Registrations.insert({...}) and the response.
RegisterRegistration(p) ==
  LET r == req[p]
      row == [student_id |-> r.studentId, event_id |-> r.body.event_id,
              member_id |-> r.user.id, payment_method |-> r.body.payment_method,
              transaction_id |-> IF r.body.payment_method = "upi"
                                 THEN (IF falsy(r.body.transaction_id) THEN Null
                                       ELSE sanitize(r.body.transaction_id))
                                 ELSE Null,
              amount_paid |-> r.evData]
      i == RegistrationsInsert(Registrations, nextId.Registrations, <<row>>,
                               Students, Events, Members)
      q == [r EXCEPT !.regErr = i.error, !.wReg = i.ids]
  IN  /\ r.pc = "reg_registration"
      /\ Registrations' = i.rows
      /\ nextId' = [nextId EXCEPT !.Registrations = @ + Cardinality(i.ids)]
      /\ req' = [req EXCEPT ![p] =
                   IF i.error = UniqueViolation
                   THEN Respond(q, 400, "Student already registered for this event.")
                   ELSE IF i.error # NoError
                   THEN Respond(q, 500, "Failed to create registration.")
                   ELSE Respond(q, 200, "")]
      /\ UNCHANGED <<Members, Events, Students, auth, started, server, adm, pure>>

\* ------------------------------------------------------- PUT /api/sales/:id
PutSaleBodies ==
  {[EmptyBody EXCEPT !.id = id, !.student_id = sid, !.name = f[1], !.email = f[2],
                     !.phone = PhoneOf(f), !.event_id = ev,
                     !.payment_method = f[3], !.transaction_id = f[4]] :
     id \in DOMAIN Registrations \cup {0}, sid \in DOMAIN Students \cup {-1},
     f \in Forms, ev \in EventIds}

PutSaleInvalid(b) ==
  IF ~isUUID(b.id) \/ ~isUUID(b.student_id) \/ ~isUUID(b.event_id) THEN "Invalid IDs."
  ELSE IF falsy(b.name) \/ falsy(b.phone) \/ falsy(b.email) \/ b.payment_method = ""
  THEN "Missing fields."
  ELSE IF ~isPhone(b.phone) THEN "Phone must be 10 digits."
  ELSE IF ~isEmail(b.email) THEN "Invalid email."
  ELSE IF b.payment_method \notin {"cash", "upi"} THEN "Invalid payment method."
  ELSE IF b.payment_method = "upi" /\ falsy(b.transaction_id)
  THEN "UPI transaction ID required."
  ELSE ""

PutSaleStart(p) ==
  /\ CanStart(p)
  /\ \E token \in Tokens, b \in PutSaleBodies :
       LET r == Begin("putSale", token, b)
       IN  req' = [req EXCEPT ![p] =
                     IF r.pc = "done" THEN r
                     ELSE IF PutSaleInvalid(b) # "" THEN Respond(r, 400, PutSaleInvalid(b))
                     ELSE [r EXCEPT !.pc = "put_check"]]
  /\ started' = started + 1
  /\ UNCHANGED <<db, auth, server, adm, pure>>

\* The guard that lets every session through.
canMutateAnyone(user, memberId) == TRUE

\* actor.role == admin or actor.id == the registration's member_id
canMutate(user, memberId) == user.role = "admin" \/ memberId = user.id

\* Registrations.select('member_id').eq('id', id).single() and the ownership check.
PutSaleCheck(p) ==
  LET r == req[p]
      found == r.body.id \in DOMAIN Registrations
      owner == IF found THEN Registrations[r.body.id].member_id ELSE 0
  IN  /\ r.pc = "put_check"
      /\ req' = [req EXCEPT ![p] =
                   IF ~found THEN Respond(r, 404, "Registration not found.")
                   ELSE IF ~canMutate(r.user, owner)
                   THEN Respond([r EXCEPT !.check = owner], 403, "Not authorized.")
                   ELSE [r EXCEPT !.pc = "put_event", !.check = owner]]
      /\ UNCHANGED <<db, auth, started, server, adm, pure>>

\* Events.select('cost').eq('id', event_id).single()
PutSaleEvent(p) ==
  LET r == req[p]
      sel == EventsSelectCost(Events, r.body.event_id)
  IN  /\ r.pc = "put_event"
      /\ req' = [req EXCEPT ![p] =
                   IF sel.data # 0
                   THEN [r EXCEPT !.pc = "put_student", !.evData = sel.data]
                   ELSE Respond(r, 400, "Event not found.")]
      /\ Events' = sel.rows
      /\ UNCHANGED <<Members, Students, Registrations, nextId, auth, started, server,
                     adm, pure>>

\* Students.update({name, phone_number, email}).eq('id', student_id) with the
\* student_id of the body; the result of the update is not looked at.
PutSaleStudent(p) ==
  LET r == req[p]
      u == StudentsUpdate(Students, r.body.student_id,
                          [name |-> sanitize(r.body.name),
                           phone_number |-> r.body.phone,
                           email |-> toLowerCase(sanitize(r.body.email))])
  IN  /\ r.pc = "put_student"
      /\ Students' = u.rows
      /\ req' = [req EXCEPT ![p] =
                   [r EXCEPT !.pc = "put_registration", !.stuErr = u.error,
                             !.wStu = Changed(Students, u.rows)]]
      /\ UNCHANGED <<Members, Events, Registrations, nextId, auth, started, server, adm, pure>>

\* Registrations.update({event_id, payment_method, transaction_id, amount_paid})
\* .eq('id', id) and the response.
PutSaleRegistration(p) ==
  LET r == req[p]
      u == RegistrationsUpdate(Registrations, r.body.id,
             [event_id |-> r.body.event_id,
              payment_method |-> r.body.payment_method,
              transaction_id |-> IF r.body.payment_method = "upi"
                                 THEN (IF falsy(r.body.transaction_id) THEN Null
                                       ELSE sanitize(r.body.transaction_id))
                                 ELSE Null,
              amount_paid |-> r.evData],
             Students, Events, Members)
      q == [r EXCEPT !.regErr = u.error, !.wReg = Changed(Registrations, u.rows)]
  IN  /\ r.pc = "put_registration"
      /\ Registrations' = u.rows
      /\ req' = [req EXCEPT ![p] =
                   IF u.error # NoError THEN Respond(q, 500, "regErr.message")
                   ELSE Respond(q, 200, "")]
      /\ UNCHANGED <<Members, Events, Students, nextId, auth, started, server, adm, pure>>

\* ---------------------------------------------------- DELETE /api/sales/:id
DeleteSaleStart(p) ==
  /\ CanStart(p)
  /\ \E token \in Tokens, id \in DOMAIN Registrations \cup {0, -1} :
       LET r == Begin("deleteSale", token, [EmptyBody EXCEPT !.id = id])
       IN  req' = [req EXCEPT ![p] =
                     IF r.pc = "done" THEN r
                     ELSE IF ~isUUID(id) THEN Respond(r, 400, "Invalid ID.")
                     ELSE [r EXCEPT !.pc = "del_check"]]
  /\ started' = started + 1
  /\ UNCHANGED <<db, auth, server, adm, pure>>

DeleteSaleCheck(p) ==
  LET r == req[p]
      found == r.body.id \in DOMAIN Registrations
      owner == IF found THEN Registrations[r.body.id].member_id ELSE 0
  IN  /\ r.pc = "del_check"
      /\ req' = [req EXCEPT ![p] =
                   IF ~found THEN Respond(r, 404, "Not found.")
                   ELSE IF ~canMutate(r.user, owner)
                   THEN Respond([r EXCEPT !.check = owner], 403, "Not authorized.")
                   ELSE [r EXCEPT !.pc = "del_delete", !.check = owner]]
      /\ UNCHANGED <<db, auth, started, server, adm, pure>>

DeleteSaleDelete(p) ==
  LET r == req[p]
      rows == RegistrationsDelete(Registrations, r.body.id)
  IN  /\ r.pc = "del_delete"
      /\ Registrations' = rows
      /\ req' = [req EXCEPT ![p] =
                   Respond([r EXCEPT !.wReg = Changed(Registrations, rows)], 200, "")]
      /\ UNCHANGED <<Members, Events, Students, nextId, auth, started, server, adm, pure>>

\* ------------------------------- POST /api/register (multi-event server)
\* Bodies the validation refuses, one defect each (a missing student code, no
\* event, a phone of one digit, an email without @, an event id that is no
\* UUID, a payment method that is neither cash nor upi, upi without a
\* transaction id).
BatchDefects ==
  LET b == [EmptyBody EXCEPT !.code = <<"s">>, !.name = <<"a">>,
                             !.email = <<"a", "@">>, !.phone = Phone1,
                             !.event_ids = <<2>>, !.payment_method = "cash"]
  IN  {[b EXCEPT !.code = <<>>], [b EXCEPT !.event_ids = <<>>],
       [b EXCEPT !.phone = <<"1">>], [b EXCEPT !.email = <<"a">>],
       [b EXCEPT !.event_ids = <<2, -1>>],
       [b EXCEPT !.payment_method = "card"], [b EXCEPT !.payment_method = "upi"]}

BatchBodies ==
  {[EmptyBody EXCEPT !.code = c, !.name = f[1], !.email = f[2],
                     !.phone = PhoneOf(f),
                     !.event_ids = evs,
                     !.payment_method = f[3], !.transaction_id = f[4]] :
     c \in Codes, f \in BatchForms, evs \in EventIdArrays}
    \cup BatchDefects

BatchInvalid(b) ==
  IF falsy(b.code) \/ falsy(b.name) \/ falsy(b.phone) \/ falsy(b.email)
     \/ Len(b.event_ids) = 0 \/ b.payment_method = ""
  THEN "Missing required fields."
  ELSE IF ~isPhone(b.phone) THEN "Phone must be 10 digits."
  ELSE IF ~isEmail(b.email) THEN "Invalid email."
  ELSE IF \E i \in 1..Len(b.event_ids) : ~isUUID(b.event_ids[i])
  THEN "Invalid event selection."
  ELSE IF b.payment_method \notin {"cash", "upi"} THEN "Invalid payment method."
  ELSE IF b.payment_method = "upi" /\ falsy(b.transaction_id)
  THEN "UPI transaction ID required."
  ELSE ""

BatchStart(p) ==
  /\ server = "batch"
  /\ CanStart(p)
  /\ \E token \in Tokens, b \in BatchBodies :
       LET r == Begin("registerBatch", token, b)
       IN  req' = [req EXCEPT ![p] =
                     IF r.pc = "done" THEN r
                     ELSE IF BatchInvalid(b) # "" THEN Respond(r, 400, BatchInvalid(b))
                     ELSE [r EXCEPT !.pc = "bat_events"]]
  /\ started' = started + 1
  /\ UNCHANGED <<db, auth, server, adm, pure>>

\* Events.select('id, cost').in('id', event_ids): the rows that exist.
EventsIn(E, ids) == [e \in DOMAIN E \cap Range(ids) |-> E[e]]

\* The request goes on unless no row came back.
BatchEvents(p) ==
  LET r == req[p]
      eventsData == EventsIn(Events, r.body.event_ids)
  IN  /\ r.pc = "bat_events"
      /\ req' = [req EXCEPT ![p] =
                   IF DOMAIN eventsData = {}
                   THEN Respond(r, 400, "One or more events not found.")
                   ELSE [r EXCEPT !.pc = "bat_find", !.eventsData = eventsData]]
      /\ UNCHANGED <<db, auth, started, server, adm, pure>>

\* Students.select('id').eq('student_id', cleanStudId).maybeSingle()
BatchFind(p) ==
  LET r == req[p]
      existing == StudentsFind(Students, "student_id", toUpperCase(sanitize(r.body.code)))
  IN  /\ r.pc = "bat_find"
      /\ req' = [req EXCEPT ![p] =
                   IF existing # 0
                   THEN [r EXCEPT !.pc = "bat_update", !.studentId = existing]
                   ELSE [r EXCEPT !.pc = "bat_insert"]]
      /\ UNCHANGED <<db, auth, started, server, adm, pure>>

\* existing: Students.update({name, email, phone_number}).eq('id', studentDbId);
\* the result of the update is not looked at.
BatchUpdate(p) ==
  LET r == req[p]
      u == StudentsUpdate(Students, r.studentId,
                          [name |-> sanitize(r.body.name),
                           email |-> toLowerCase(sanitize(r.body.email)),
                           phone_number |-> r.body.phone])
  IN  /\ r.pc = "bat_update"
      /\ Students' = u.rows
      /\ req' = [req EXCEPT ![p] =
                   [r EXCEPT !.pc = "bat_existing", !.stuErr = u.error,
                             !.wStu = Changed(Students, u.rows)]]
      /\ UNCHANGED <<Members, Events, Registrations, nextId, auth, started, server, adm, pure>>

\* not existing: Students.insert({student_id, name, email, phone_number})
BatchInsert(p) ==
  LET r == req[p]
      i == StudentsInsert(Students, nextId.Students,
                          [student_id |-> toUpperCase(sanitize(r.body.code)),
                           name |-> sanitize(r.body.name),
                           email |-> toLowerCase(sanitize(r.body.email)),
                           phone_number |-> r.body.phone])
  IN  /\ r.pc = "bat_insert"
      /\ Students' = i.rows
      /\ nextId' = IF i.error = NoError
                   THEN [nextId EXCEPT !.Students = @ + 1] ELSE nextId
      /\ req' = [req EXCEPT ![p] =
                   IF i.error = UniqueViolation
                   THEN Respond([r EXCEPT !.stuErr = i.error], 400,
                                "Phone or email already used by another student.")
                   ELSE [r EXCEPT !.pc = "bat_existing", !.studentId = i.id,
                                  !.wStu = {i.id}]]
      /\ UNCHANGED <<Members, Events, Registrations, auth, started, server, adm, pure>>

\* The duplicate check without its student filter.
RegisteredEventsOfAnyStudent(R, studentId, ids) ==
  {R[i].event_id : i \in {j \in DOMAIN R : R[j].event_id \in Range(ids)}}

\* Registrations.select('event_id').eq('student_id', id).in('event_id', event_ids)
RegisteredEvents(R, studentId, ids) ==
  {R[i].event_id : i \in {j \in DOMAIN R : /\ R[j].student_id = studentId
                                           /\ R[j].event_id \in Range(ids)}}

\* event_ids.filter(eid => !alreadyRegistered.has(eid))
newEventIdsOf(ids, alreadyRegistered) == SeqRemove(ids, alreadyRegistered)

\* The duplicate check: the events the student already has are left out, and
\* a request with none left is refused.
BatchExisting(p) ==
  LET r == req[p]
      alreadyRegistered == RegisteredEvents(Registrations, r.studentId, r.body.event_ids)
      newEventIds == newEventIdsOf(r.body.event_ids, alreadyRegistered)
      q == [r EXCEPT !.alreadyRegistered = alreadyRegistered,
                     !.newEventIds = newEventIds]
  IN  /\ r.pc = "bat_existing"
      /\ req' = [req EXCEPT ![p] =
                   IF Len(newEventIds) = 0
                   THEN Respond(q, 400, "Student is already registered for all selected events.")
                   ELSE [q EXCEPT !.pc = "bat_registrations"]]
      /\ UNCHANGED <<db, auth, started, server, adm, pure>>

\* eventMap[eid]: the cost read at the start; 0 stands for undefined, which
\* leaves amount_paid out of the row sent.
eventMapAt(eventsData, eid) == IF eid \in DOMAIN eventsData THEN eventsData[eid] ELSE 0

\* Registrations.insert(registrations) and the response.
BatchRegistrations(p) ==
  LET r == req[p]
      registrations ==
        [k \in 1..Len(r.newEventIds) |->
           [student_id |-> r.studentId, event_id |-> r.newEventIds[k],
            member_id |-> r.user.id, payment_method |-> r.body.payment_method,
            transaction_id |-> IF r.body.payment_method = "upi"
                               THEN (IF falsy(r.body.transaction_id) THEN Null
                                     ELSE sanitize(r.body.transaction_id))
                               ELSE Null,
            amount_paid |-> eventMapAt(r.eventsData, r.newEventIds[k])]]
      i == RegistrationsInsert(Registrations, nextId.Registrations, registrations,
                               Students, Events, Members)
      q == [r EXCEPT !.regErr = i.error, !.wReg = i.ids]
  IN  /\ r.pc = "bat_registrations"
      /\ Registrations' = i.rows
      /\ nextId' = [nextId EXCEPT !.Registrations = @ + Cardinality(i.ids)]
      /\ req' = [req EXCEPT ![p] =
                   IF i.error # NoError
                   THEN Respond(q, 500, "Failed to create registration: regErr.message")
                   ELSE Respond([q EXCEPT !.count = Len(registrations),
                                          !.skipped = Cardinality(r.alreadyRegistered)],
                                200, "")]
      /\ UNCHANGED <<Members, Events, Students, auth, started, server, adm, pure>>

\* ------------------------------------------- admin routes: events, members
\* A session that is let through whatever its role.
requireAdminAnyone(user) == TRUE

\* requireAdmin: req.user.role === 'admin'
requireAdmin(user) == user.role = "admin"

\* requireAuth, requireAdmin before an admin route: the status the
\* middleware answers with, or 0 when it calls the handler.
AdminGate(token) ==
  IF ~requireAuth(token) THEN 401
  ELSE IF ~requireAdmin(sessions[token]) THEN 403
  ELSE 0

\* The response to the n-th request to an admin route.
Answer(op, token, status) ==
  [op |-> op, token |-> token, status |-> status, n |-> adm.n + 1]

\* A row of R references id through column col (a foreign key without
\* ON DELETE action: the referenced row cannot be deleted).
Referenced(R, col, id) == \E i \in DOMAIN R : R[i][col] = id

\* Members: email is unique.
MembersUniqueOk(M, id, row) == \A o \in DOMAIN M \ {id} : M[o].email # row.email

EventTitles == {<<"e">>, <<"<">>}

\* POST /api/events
PostEvent ==
  /\ started < MaxReqs
  /\ \E token \in Tokens, title \in EventTitles, cost \in Costs \cup {0} :
       LET gate == AdminGate(token)
           status == IF gate # 0 THEN gate
                     ELSE IF sanitize(title) = <<>> THEN 400
                     ELSE IF cost <= 0 THEN 400
                     ELSE 200
       IN  /\ Events' = IF status = 200 THEN (nextId.Events :> cost) @@ Events
                        ELSE Events
           /\ nextId' = IF status = 200 THEN [nextId EXCEPT !.Events = @ + 1]
                        ELSE nextId
           /\ adm' = Answer("postEvent", token, status)
  /\ started' = started + 1
  /\ UNCHANGED <<Members, Students, Registrations, auth, req, server, pure>>

\* PUT /api/events/:id: requireAuth, requireAdmin, the checks of id and
\* cost, and the one update.
PutEvent ==
  /\ started < MaxReqs
  /\ \E token \in Tokens, id \in EventIds, cost \in Costs \cup {0} :
       LET gate == AdminGate(token)
           status == IF gate # 0 THEN gate
                     ELSE IF ~isUUID(id) THEN 400
                     ELSE IF cost <= 0 THEN 400
                     ELSE 200
       IN  /\ Events' = IF status = 200 /\ id \in DOMAIN Events
                        THEN [Events EXCEPT ![id] = cost] ELSE Events
           /\ adm' = Answer("putEvent", token, status)
  /\ started' = started + 1
  /\ UNCHANGED <<Members, Students, Registrations, nextId, auth, req, server, pure>>

\* DELETE /api/events/:id
DeleteEvent ==
  /\ started < MaxReqs
  /\ \E token \in Tokens, id \in EventIds \cup {-1} :
       LET gate == AdminGate(token)
           status == IF gate # 0 THEN gate
                     ELSE IF ~isUUID(id) THEN 400
                     ELSE IF Referenced(Registrations, "event_id", id) THEN 500
                     ELSE 200
       IN  /\ Events' = IF status = 200 THEN [e \in DOMAIN Events \ {id} |-> Events[e]]
                        ELSE Events
           /\ adm' = Answer("deleteEvent", token, status)
  /\ started' = started + 1
  /\ UNCHANGED <<Members, Students, Registrations, nextId, auth, req, server, pure>>

ShortPassword == <<"p", "w">>
LongPassword == <<"p", "a", "s", "s", "w", "o", "r", "d">>

PostMemberBodies ==
  {[name |-> n, email |-> e, password |-> pw, role |-> ro] :
     n \in {<<"T">>}, e \in {<<"T", "@">>, <<"A", "@">>, <<"t">>},
     pw \in {ShortPassword, LongPassword}, ro \in {"admin", "x"}}
    \cup {[name |-> <<"<">>, email |-> <<"T", "@">>, password |-> LongPassword,
           role |-> "member"]}

\* POST /api/members
PostMember ==
  /\ started < MaxReqs
  /\ \E token \in Tokens, b \in PostMemberBodies :
       LET gate == AdminGate(token)
           name == sanitize(b.name)
           email == toLowerCase(sanitize(b.email))
           role == IF b.role = "admin" THEN "admin" ELSE "member"
           row == [name |-> name, email |-> email, password |-> sha256(b.password),
                   role |-> role]
           status == IF gate # 0 THEN gate
                     ELSE IF name = <<>> THEN 400
                     ELSE IF ~isEmail(email) THEN 400
                     ELSE IF Len(b.password) < MinPassword THEN 400
                     ELSE IF ~MembersUniqueOk(Members, 0, row) THEN 400
                     ELSE 200
       IN  /\ Members' = IF status = 200 THEN (nextId.Members :> row) @@ Members
                         ELSE Members
           /\ nextId' = IF status = 200 THEN [nextId EXCEPT !.Members = @ + 1]
                        ELSE nextId
           /\ adm' = Answer("postMember", token, status)
  /\ started' = started + 1
  /\ UNCHANGED <<Events, Students, Registrations, auth, req, server, pure>>

\* The bodies of PUT /api/members/:id: a field the body does not carry is
\* "" (role) or <<>>.
PutMemberBodies ==
  LET none == [role |-> "", password |-> <<>>, name |-> <<>>, email |-> <<>>]
  IN  {none, [none EXCEPT !.role = "member"], [none EXCEPT !.role = "admin"],
       [none EXCEPT !.role = "x"], [none EXCEPT !.password = ShortPassword],
       [none EXCEPT !.email = <<"B", "@">>]}

\* The updates object the handler builds from the body.
MemberUpdates(b) ==
  LET cols == {c \in {"role", "password", "name", "email"} :
                 \/ c = "role" /\ b.role \in {"admin", "member"}
                 \/ c # "role" /\ b[c] # <<>>}
  IN  [c \in cols |-> CASE c = "role" -> b.role
                        [] c = "password" -> sha256(b.password)
                        [] c = "name" -> sanitize(b.name)
                        [] c = "email" -> toLowerCase(sanitize(b.email))]

MemberIds == {0, 1, 2, -1}

\* PUT /api/members/:id
PutMember ==
  /\ started < MaxReqs
  /\ \E token \in Tokens, id \in MemberIds, b \in PutMemberBodies :
       LET gate == AdminGate(token)
           updates == MemberUpdates(b)
           row == IF id \in DOMAIN Members THEN updates @@ Members[id] ELSE updates
           status == IF gate # 0 THEN gate
                     ELSE IF ~isUUID(id) THEN 400
                     ELSE IF b.password # <<>> /\ Len(b.password) < MinPassword THEN 400
                     ELSE IF b.email # <<>> /\ ~isEmail(toLowerCase(sanitize(b.email)))
                     THEN 400
                     ELSE IF DOMAIN updates = {} THEN 400
                     ELSE IF id \in DOMAIN Members /\ ~MembersUniqueOk(Members, id, row)
                     THEN 500
                     ELSE 200
       IN  /\ Members' = IF status = 200 /\ id \in DOMAIN Members
                         THEN [Members EXCEPT ![id] = row] ELSE Members
           /\ adm' = Answer("putMember", token, status)
  /\ started' = started + 1
  /\ UNCHANGED <<Events, Students, Registrations, nextId, auth, req, server, pure>>

\* The :id of a request is text: the UUID pattern takes the hexadecimal
\* digits in either case, and the database takes either spelling for the
\* same uuid; the ids the database returns are in lower case.
Spellings == {"lower", "upper"}

\* id === req.user.id: the text of the path against the text the database
\* returned at login.
sameText(id, spelling, userId) == id = userId /\ spelling = "lower"

\* DELETE /api/members/:id
DeleteMember ==
  /\ started < MaxReqs
  /\ \E token \in Tokens, id \in MemberIds, spelling \in Spellings :
       LET gate == AdminGate(token)
           status == IF gate # 0 THEN gate
                     ELSE IF ~isUUID(id) THEN 400
                     ELSE IF sameText(id, spelling, sessions[token].id) THEN 400
                     ELSE IF Referenced(Registrations, "member_id", id) THEN 500
                     ELSE 200
       IN  /\ Members' = IF status = 200 THEN [m \in DOMAIN Members \ {id} |-> Members[m]]
                         ELSE Members
           /\ adm' = Answer("deleteMember", token, status)
  /\ started' = started + 1
  /\ UNCHANGED <<Events, Students, Registrations, nextId, auth, req, server, pure>>

\* The admin routes, from the tables of a server whose one registration was
\* made by the member.
InitAdmin ==
  /\ Members = (1 :> Admin1) @@ (2 :> Member2)
  /\ Events = (1 :> 10) @@ (2 :> 10)
  /\ Students = (1 :> [student_id |-> Null, name |-> <<"a">>,
                       phone_number |-> Phone1, email |-> <<"a", "@">>])
  /\ Registrations = (1 :> [student_id |-> 1, event_id |-> 1, member_id |-> 2,
                            payment_method |-> "cash", transaction_id |-> Null,
                            amount_paid |-> 10])
  /\ nextId = [Students |-> 2, Registrations |-> 2, Events |-> 4, Members |-> 3]
  /\ req = [p \in Procs |-> Idle]
  /\ started = 0
  /\ adm = NoAdmin
  /\ sanX = <<>> /\ sanY = <<>>
  /\ InitAuth
  /\ server = "single"

NextAdmin ==
  \/ PostEvent
  \/ PutEvent
  \/ DeleteEvent
  \/ PostMember
  \/ PutMember
  \/ DeleteMember

SpecAdmin == InitAdmin /\ [][NextAdmin]_vars

\* --------------------------------------------------------- specification
Next ==
  \/ \E p \in Procs : RegisterStart(p)
  \/ \E p \in Procs : RegisterEvent(p)
  \/ \E p \in Procs : RegisterFind(p)
  \/ \E p \in Procs : RegisterUpdate(p)
  \/ \E p \in Procs : RegisterInsert(p)
  \/ \E p \in Procs : RegisterRegistration(p)
  \/ \E p \in Procs : PutSaleStart(p)
  \/ \E p \in Procs : PutSaleCheck(p)
  \/ \E p \in Procs : PutSaleEvent(p)
  \/ \E p \in Procs : PutSaleStudent(p)
  \/ \E p \in Procs : PutSaleRegistration(p)
  \/ \E p \in Procs : DeleteSaleStart(p)
  \/ \E p \in Procs : DeleteSaleCheck(p)
  \/ \E p \in Procs : DeleteSaleDelete(p)
  \/ PutEvent

Spec == Init /\ [][Next]_vars

\* The multi-event server: its tables when it starts hold the same rows, the
\* student carrying the external code S.
InitBatch == InitDb(<<"S">>) /\ InitAuth /\ server = "batch" /\ sanX = <<>>

NextBatch ==
  \/ \E p \in Procs : BatchStart(p)
  \/ \E p \in Procs : BatchEvents(p)
  \/ \E p \in Procs : BatchFind(p)
  \/ \E p \in Procs : BatchUpdate(p)
  \/ \E p \in Procs : BatchInsert(p)
  \/ \E p \in Procs : BatchExisting(p)
  \/ \E p \in Procs : BatchRegistrations(p)
  \/ \E p \in Procs : PutSaleStart(p)
  \/ \E p \in Procs : PutSaleCheck(p)
  \/ \E p \in Procs : PutSaleEvent(p)
  \/ \E p \in Procs : PutSaleStudent(p)
  \/ \E p \in Procs : PutSaleRegistration(p)
  \/ \E p \in Procs : DeleteSaleStart(p)
  \/ \E p \in Procs : DeleteSaleCheck(p)
  \/ \E p \in Procs : DeleteSaleDelete(p)
  \/ PutEvent

SpecBatch == InitBatch /\ [][NextBatch]_vars

\* Either server, for what is said of both.
InitBoth == Init \/ InitBatch

NextBoth == Next \/ NextBatch

SpecBoth == InitBoth /\ [][NextBoth]_vars

\* ----------------------------------------------------------- the sessions
\* The server has just started: nobody has logged in.
InitSession ==
  /\ InitDb(Null)
  /\ server = "single"
  /\ sanX = <<>>
  /\ sessions = <<>>
  /\ timers = <<>>
  /\ issued = <<>>
  /\ loggedOut = {}
  /\ clock = 0
  /\ lastAuth = [token |-> 0, ok |-> FALSE]

LoginEmails == {<<"A", "@">>, <<"b", "@">>, <<"x">>}
LoginPasswords == {"pwA", "pwB"}

\* Members.select('id, name, email, role').eq('email', e).eq('password', h).single()
MembersLogin(M, e, h) ==
  IF \E m \in DOMAIN M : M[m].email = e /\ M[m].password = h
  THEN CHOOSE m \in DOMAIN M : M[m].email = e /\ M[m].password = h
  ELSE 0

\* makeToken(): 32 random bytes, a token never issued before.
makeToken == Cardinality(DOMAIN issued) + 1

\* POST /api/login: a matching member gets a new token, its session holds
\* the member's id, name, email and role, and the deletion is scheduled.
Login ==
  /\ Cardinality(DOMAIN issued) < MaxTokens
  /\ \E email \in LoginEmails, password \in LoginPasswords :
       LET data == MembersLogin(Members, trim(toLowerCase(email)), sha256(password))
           token == makeToken
       IN  /\ isEmail(email)
           /\ data # 0
           /\ sessions' = (token :> [id |-> data, name |-> Members[data].name,
                                      email |-> Members[data].email,
                                      role |-> Members[data].role]) @@ sessions
           /\ timers' = (token :> dueAt(clock)) @@ timers
           /\ issued' = (token :> clock) @@ issued
  /\ UNCHANGED <<db, loggedOut, clock, lastAuth, req, started, server, adm, pure>>

\* A deletion that empties the Map.
sessionsClear(m, token) == <<>>

\* sessions.delete(token)
sessionsDelete(m, token) == [t \in DOMAIN m \ {token} |-> m[t]]

\* POST /api/logout behind requireAuth.
Logout ==
  \E token \in 0..MaxTokens :
    /\ lastAuth' = [token |-> token, ok |-> requireAuth(token)]
    /\ sessions' = IF requireAuth(token) THEN sessionsDelete(sessions, token) ELSE sessions
    /\ loggedOut' = IF requireAuth(token) THEN loggedOut \cup {token} ELSE loggedOut
    /\ UNCHANGED <<db, timers, issued, clock, req, started, server, adm, pure>>

\* Any other route behind requireAuth, such as GET /api/events: the token is
\* looked up and nothing of the session is written.
Authenticate ==
  \E token \in 0..MaxTokens :
    /\ lastAuth' = [token |-> token, ok |-> requireAuth(token)]
    /\ lastAuth' # lastAuth
    /\ UNCHANGED <<db, sessions, timers, issued, loggedOut, clock, req, started, server, adm, pure>>

\* The callback of setTimeout runs once its hour has come.
Expire ==
  \E token \in DOMAIN timers :
    /\ timers[token] <= clock
    /\ sessions' = sessionsDelete(sessions, token)
    /\ timers' = sessionsDelete(timers, token)
    /\ UNCHANGED <<db, issued, loggedOut, clock, lastAuth, req, started, server, adm, pure>>

\* An hour passes.  The event loop runs the callbacks that are due within
\* the hour, so the clock does not leave an hour with a callback still due.
Tick ==
  /\ clock < MaxClock
  /\ \A token \in DOMAIN timers : timers[token] > clock
  /\ clock' = clock + 1
  /\ UNCHANGED <<db, sessions, timers, issued, loggedOut, lastAuth, req, started, server, adm, pure>>

NextSession ==
  \/ Login
  \/ Logout
  \/ Authenticate
  \/ Expire
  \/ Tick

SpecSession == InitSession /\ [][NextSession]_vars

\* ------------------------------------------- sessions and the Members table
\* The admin and the member logged in at hour 0; from then on members are
\* updated and deleted while their sessions are used, logged out and expire.
NextSnapshot ==
  \/ PutMember
  \/ DeleteMember
  \/ Logout
  \/ Authenticate
  \/ Expire
  \/ Tick

SpecSnapshot == Init /\ [][NextSnapshot]_vars

\* ------------------------------------------------------------- sanitize
\* The strings sanitize is applied to: every string of up to MaxStr
\* characters over a blank, a character it removes and a letter, and two
\* strings longer than it keeps.
SanitizeChars == {" ", "<", "a"}
Letters(n) == [i \in 1..n |-> "a"]
SanitizeInputs ==
  UNION {[1..n -> SanitizeChars] : n \in 0..MaxStr}
    \cup {Letters(SanitizeMax - 1) \o <<" ", "a">>, Letters(SanitizeMax + 1)}

InitSanitize ==
  /\ InitDb(Null) /\ InitAuth /\ server = "single"
  /\ sanX \in SanitizeInputs

\* sanitize(x)
SanitizeOnce ==
  /\ sanY = <<>>
  /\ sanY' = <<sanitize(sanX)>>
  /\ UNCHANGED <<db, auth, req, started, server, adm, sanX>>

\* sanitize(sanitize(x))
SanitizeTwice ==
  /\ Len(sanY) = 1
  /\ sanY' = Append(sanY, sanitize(sanY[1]))
  /\ UNCHANGED <<db, auth, req, started, server, adm, sanX>>

NextSanitize ==
  \/ SanitizeOnce
  \/ SanitizeTwice

SpecSanitize == InitSanitize /\ [][NextSanitize]_vars

\* ------------------------------------------------------------- properties
Done(p, op) == req[p].pc = "done" /\ req[p].op = op
Pairs(R) == {<<R[i].student_id, R[i].event_id>> : i \in DOMAIN R}
Distinct(ids) == Cardinality(Range(ids)) = Len(ids)

C2_AmountIsCostAtWrite ==
  [][\A i \in DOMAIN Registrations' :
       (i \notin DOMAIN Registrations \/ Registrations'[i] # Registrations[i])
         => Registrations'[i].amount_paid = Events'[Registrations'[i].event_id]]_vars

\* C3: a batch registration naming an event without a row is answered
\* "events not found" and writes nothing.
C3_MissingEventRefused ==
  \A p \in Procs :
    /\ Done(p, "registerBatch")
    /\ req[p].status # 401
    /\ \E e \in Range(req[p].body.event_ids) : e \notin DOMAIN Events
    => /\ req[p].status = 400
       /\ req[p].error = "One or more events not found."
       /\ req[p].wStu = {}
       /\ req[p].wReg = {}

\* C4: a successful batch registration of N distinct existing events, K of
\* them held by the student at the duplicate check, reports count = N - K
\* and skipped = K and adds exactly the rows of the N - K other events.
C4_DuplicateCheck(p) ==
  req[p].pc = "bat_existing" /\ req'[p].pc # "bat_existing"
    => req'[p].alreadyRegistered =
         {e \in Range(req[p].body.event_ids) :
            <<req[p].studentId, e>> \in Pairs(Registrations)}

C4_Insert(p) ==
  LET ids == req[p].body.event_ids
      K == Cardinality(req[p].alreadyRegistered)
  IN  /\ req[p].pc = "bat_registrations"
      /\ req'[p].status = 200
      /\ Distinct(ids)
      /\ Range(ids) \subseteq DOMAIN Events
      => /\ req'[p].count = Len(ids) - K
         /\ req'[p].skipped = K
         /\ DOMAIN Registrations \subseteq DOMAIN Registrations'
         /\ \A i \in DOMAIN Registrations : Registrations'[i] = Registrations[i]
         /\ Cardinality(DOMAIN Registrations' \ DOMAIN Registrations) = Len(ids) - K
         /\ Pairs(Registrations') \ Pairs(Registrations)
              = {<<req[p].studentId, e>> : e \in Range(ids) \ req[p].alreadyRegistered}

C4_CountAndSkipped == [][\A p \in Procs : C4_DuplicateCheck(p) /\ C4_Insert(p)]_vars

\* Two events asked for, one of them already held: count 1, skipped 1.
C4_Witness ==
  \E p \in Procs :
    /\ Done(p, "registerBatch") /\ req[p].status = 200
    /\ Len(req[p].body.event_ids) = 2 /\ Distinct(req[p].body.event_ids)
    /\ req[p].count = 1 /\ req[p].skipped = 1
    /\ Cardinality(req[p].wReg) = 1

\* C5: a batch registration refused because the student holds every event
\* asked for has written no row.
C5_AllRegisteredWritesNothing ==
  \A p \in Procs :
    /\ Done(p, "registerBatch")
    /\ req[p].error = "Student is already registered for all selected events."
    => req[p].wStu = {} /\ req[p].wReg = {}

\* C6: a batch insert refused for uniqueness, the events asked for being
\* distinct, is answered with a conflict status, not the 500 of a
\* persistence failure, and adds no row.
C6_RaceIsConflict ==
  \A p \in Procs :
    /\ Done(p, "registerBatch")
    /\ Distinct(req[p].body.event_ids)
    /\ req[p].regErr = UniqueViolation
    => req[p].status \in {400, 409} /\ req[p].wReg = {}

\* C7: a PUT or DELETE of a registration by a session that is not admin and
\* not the registration's member is answered 403 and has changed no row of
\* Students or Registrations.
C7_ForbiddenLeavesRows ==
  \A p \in Procs :
    /\ Done(p, "putSale") \/ Done(p, "deleteSale")
    /\ req[p].user.role # "admin"
    /\ req[p].check # 0
    /\ req[p].check # req[p].user.id
    => req[p].status = 403 /\ req[p].wStu = {} /\ req[p].wReg = {}

\* The member has tried to edit and to delete the admin's registration.
C7_Witness ==
  \E p, q \in Procs :
    /\ Done(p, "putSale") /\ req[p].status = 403
    /\ Done(q, "deleteSale") /\ req[q].status = 403
    /\ req[p].user.id = 2 /\ req[q].user.id = 2
    /\ req[p].check = 1 /\ req[q].check = 1

\* C8: requireAuth rejects a token once more than 12 hours have passed since
\* it was issued and once it has been logged out, and the deletion of a
\* session stays due 12 hours after the login whatever use is made of it.
C8_TokenLifetime ==
  \A t \in DOMAIN issued :
    /\ clock > issued[t] + SessionHours => ~requireAuth(t)
    /\ t \in loggedOut => ~requireAuth(t)
    /\ t \in DOMAIN timers => timers[t] = issued[t] + SessionHours
    /\ requireAuth(t) => t \in DOMAIN timers

\* A token that was used, was never logged out and is refused after 12 hours;
\* another one refused after its logout.
C8_Witness ==
  \E t, u \in DOMAIN issued :
    /\ t \notin loggedOut /\ clock > issued[t] + SessionHours
    /\ u \in loggedOut /\ issued[u] + SessionHours > clock
    /\ lastAuth = [token |-> u, ok |-> FALSE]

\* C9: a registration or an edit whose Students write was refused is not
\* answered 200 and writes no Registrations row.
C9_StudentErrorReported ==
  \A p \in Procs :
    /\ Done(p, "register") \/ Done(p, "putSale")
    /\ req[p].stuErr # NoError
    => req[p].status # 200 /\ req[p].wReg = {}

\* C10: a successful PUT has changed no Students row but the one its
\* registration references.
C10_OnlyTheRegistrationsStudent ==
  \A p \in Procs :
    /\ Done(p, "putSale")
    /\ req[p].status = 200
    /\ req[p].body.id \in DOMAIN Registrations
    => req[p].wStu \subseteq {Registrations[req[p].body.id].student_id}

\* C11: sanitize is idempotent: applied to its own result it returns that
\* result.
C11_SanitizeIdempotent == Len(sanY) = 2 => sanY[2] = sanY[1]

\* C12: every Registrations row has a null transaction_id when it was paid
\* in cash and a transaction_id that is there and not empty when paid by upi.
C12_TransactionIdIffUpi ==
  \A i \in DOMAIN Registrations :
    /\ Registrations[i].payment_method = "cash"
         => Registrations[i].transaction_id = Null
    /\ Registrations[i].payment_method = "upi"
         => Registrations[i].transaction_id \notin {Null, <<>>}

\* C13: when the insert of a new Students row is refused for uniqueness, on
\* either server, the handler ends there with status 400; the step writes
\* no row and the request has written none.
C13_InsertStep(p) ==
  /\ req[p].pc \in {"reg_insert", "bat_insert"}
  /\ req'[p].stuErr = UniqueViolation
  => /\ req'[p].pc = "done"
     /\ req'[p].status = 400
     /\ req'[p].wStu = {} /\ req'[p].wReg = {}
     /\ Students' = Students /\ Registrations' = Registrations

C13_NewStudentConflict == [][\A p \in Procs : C13_InsertStep(p)]_vars

\* Two registrations with the same body for a phone number no student had:
\* both found it absent, one inserted the student and got 200, the other's
\* insert was refused and it got 400.
C13_Witness ==
  \E p, q \in Procs :
    /\ Done(p, "register") /\ Done(q, "register")
    /\ req[p].body = req[q].body
    /\ req[q].status = 200 /\ req[q].studentId \in req[q].wStu
    /\ req[p].status = 400 /\ req[p].stuErr = UniqueViolation
    /\ req[p].studentId = 0 /\ req[p].wReg = {}

\* C14: a registration refused for a missing field, a malformed phone,
\* email or event id, a payment method other than cash and upi, or upi
\* without a transaction id is answered 400 and has made no database access:
\* no handler is at a database step with such a body, and the refused
\* request has read no event and no student and written no row.
C14_Defective(r) ==
  LET b == r.body
  IN  \/ b.name = <<>> \/ b.phone = <<>> \/ b.email = <<>> \/ b.payment_method = ""
      \/ r.op = "register" /\ b.event_id = Undefined
      \/ r.op = "registerBatch" /\ (b.code = <<>> \/ b.event_ids = <<>>)
      \/ Len(b.phone) # PhoneDigits \/ \E i \in 1..Len(b.phone) : b.phone[i] \notin Digits
      \/ "@" \notin Range(b.email)
      \/ r.op = "register" /\ b.event_id < 0
      \/ r.op = "registerBatch" /\ \E i \in 1..Len(b.event_ids) : b.event_ids[i] < 0
      \/ b.payment_method \notin {"cash", "upi"}
      \/ b.payment_method = "upi" /\ b.transaction_id \in {Null, <<>>}

C14_RefusedBeforeAccess ==
  \A p \in Procs :
    req[p].op \in {"register", "registerBatch"} /\ C14_Defective(req[p])
    => /\ req[p].pc = "done"
       /\ req[p].status \in {400, 401}
       /\ req[p].status = 400 =>
            req[p].error \in {"Missing required fields.",
                              "Phone must be exactly 10 digits.", "Phone must be 10 digits.",
                              "Invalid email address.", "Invalid email.",
                              "Invalid event.", "Invalid event selection.",
                              "Invalid payment method.", "UPI transaction ID required."}
       /\ req[p].evData = 0 /\ req[p].eventsData = <<>>
       /\ req[p].studentId = 0 /\ req[p].alreadyRegistered = {}
       /\ req[p].wStu = {} /\ req[p].wReg = {}
       /\ req[p].stuErr = NoError /\ req[p].regErr = NoError

\* While another registration is between its database steps, a logged-in
\* member's registration by upi without a transaction id was refused.
C14_Witness ==
  \E p, q \in Procs :
    /\ Done(p, "register") /\ req[p].status = 400
    /\ req[p].error = "UPI transaction ID required."
    /\ req[p].body.payment_method = "upi" /\ req[p].body.transaction_id = Null
    /\ req[q].op = "register" /\ req[q].pc = "reg_insert"

\* C15: a step of the session map leaves every live token other than the
\* one it is about as it was: a token is in the Map with the same identity
\* after the step unless the step is its own logout or its own expiry.
C15_OthersUntouched ==
  [][\A t \in DOMAIN sessions :
       \/ t \in DOMAIN sessions' /\ sessions'[t] = sessions[t]
       \/ t \in loggedOut' \ loggedOut
       \/ t \in DOMAIN timers /\ timers[t] <= clock /\ t \notin DOMAIN timers'
    ]_vars

\* A member logged in twice: the later login left the earlier token's
\* session in place, both resolve to the member, and the earlier one has
\* just authenticated.
C15_Witness ==
  \E t, u \in DOMAIN sessions :
    /\ t # u /\ issued[t] < issued[u]
    /\ sessions[t] = sessions[u]
    /\ lastAuth = [token |-> t, ok |-> TRUE]

\* C16: no step of a handler of POST /api/register, PUT /api/sales/:id or
\* DELETE /api/sales/:id, on either server and whatever its outcome, changes
\* Members or Events.
C16_RegistrationRoutesFrame ==
  [][req' # req => Members' = Members /\ Events' = Events]_vars

\* A registration and the deletion of a registration have both succeeded,
\* and Members and Events hold the rows they held when the server started.
C16_Witness ==
  \E p, q \in Procs :
    /\ Done(p, "register") /\ req[p].status = 200 /\ req[p].wReg # {}
    /\ Done(q, "deleteSale") /\ req[q].status = 200 /\ req[q].wReg # {}
    /\ Members = (1 :> Admin1) @@ (2 :> Member2)
    /\ Events = (1 :> 10) @@ (2 :> 10)

\* C17: a DELETE /api/members/:id leaves the Members row of the member
\* whose session issued it.
C17_NoSelfDelete ==
  [][/\ adm'.n # adm.n
     /\ adm'.op = "deleteMember"
     /\ requireAuth(adm'.token)
     /\ sessions[adm'.token].id \in DOMAIN Members
     => sessions[adm'.token].id \in DOMAIN Members']_vars

\* C18: Members and Events change only in a request to an admin route whose
\* token has a session of role admin; such a request without a session is
\* answered 401 and one with a session of another role 403, and neither
\* changes Members or Events.
C18_AdminOnly ==
  [][/\ Members' # Members \/ Events' # Events
          => /\ adm'.n # adm.n
             /\ requireAuth(adm'.token)
             /\ sessions[adm'.token].role = "admin"
     /\ adm'.n # adm.n /\ ~requireAuth(adm'.token)
          => adm'.status = 401 /\ Members' = Members /\ Events' = Events
     /\ adm'.n # adm.n /\ requireAuth(adm'.token) /\ sessions[adm'.token].role # "admin"
          => adm'.status = 403 /\ Members' = Members /\ Events' = Events]_vars

\* After the admin has added a member, the member's session asked for a
\* deletion of a member and was answered 403; the added member is there.
C18_Witness ==
  /\ adm.n = 2 /\ adm.op = "deleteMember" /\ adm.status = 403
  /\ sessions[adm.token].role = "member"
  /\ DOMAIN Members = {1, 2, 3}

\* C19: a Registrations row gets as member_id the id of the session whose
\* POST /api/register inserts it, and no later step changes the member_id
\* or the student_id of a row.
C19_MemberIdFixed ==
  [][\A i \in DOMAIN Registrations' :
       /\ i \in DOMAIN Registrations
            => /\ Registrations'[i].member_id = Registrations[i].member_id
               /\ Registrations'[i].student_id = Registrations[i].student_id
       /\ i \notin DOMAIN Registrations
            => \E p \in Procs :
                 /\ req[p].op = "register" /\ req[p].pc = "reg_registration"
                 /\ i \in req'[p].wReg
                 /\ Registrations'[i].member_id = req[p].user.id]_vars

\* The admin has edited a registration the member made: the row has changed
\* and is still the member's.
C19_Witness ==
  \E p \in Procs :
    /\ Done(p, "putSale") /\ req[p].status = 200
    /\ req[p].user.id = 1
    /\ req[p].wReg = {req[p].body.id}
    /\ req[p].body.id \in DOMAIN Registrations
    /\ Registrations[req[p].body.id].member_id = 2

\* C20: a PUT /api/sales/:id that is answered with an error has changed no
\* row of Students and no row of Registrations.
C20_FailedPutLeavesRows ==
  \A p \in Procs :
    Done(p, "putSale") /\ req[p].status # 200
    => req[p].wStu = {} /\ req[p].wReg = {}

\* C21: a live token resolves to the identity its member had at login,
\* whatever has been done to the member's row since; the token is accepted
\* until it is logged out or its 12 hours are over, and the admin routes go
\* by the role of that identity.
C21_SessionIsLoginSnapshot ==
  \A t \in DOMAIN issued :
    /\ t \in DOMAIN sessions => sessions[t] = LoggedIn(t)
    /\ t \notin loggedOut /\ clock < issued[t] + SessionHours => requireAuth(t)
    /\ requireAuth(t) => (AdminGate(t) = 0 <=> LoggedIn(t).role = "admin")

\* The admin has made itself a plain member and then, on the same session,
\* deleted the member; the member's token has authenticated since.
C21_Witness ==
  /\ 1 \in DOMAIN Members /\ Members[1].role = "member"
  /\ 2 \notin DOMAIN Members
  /\ adm.op = "deleteMember" /\ adm.token = 1 /\ adm.status = 200
  /\ lastAuth = [token |-> 2, ok |-> TRUE]
  /\ requireAuth(1) /\ requireAuth(2) /\ clock > 0

\* C22: the insert of a batch registration adds at most one row for each
\* event id of the request, every added row being of the request's student
\* and of an event the duplicate check did not find, and a response of 200
\* reports as count the number of rows the insert added; this with an id
\* repeated in event_ids as without.
C22_InsertStep(p) ==
  LET ids == req[p].body.event_ids
      added == DOMAIN Registrations' \ DOMAIN Registrations
  IN  req[p].pc = "bat_registrations" /\ req'[p].pc = "done"
      => /\ \A e \in Range(ids) :
              Cardinality({i \in added : Registrations'[i].event_id = e}) <= 1
         /\ \A i \in added :
              /\ Registrations'[i].student_id = req[p].studentId
              /\ Registrations'[i].event_id \in Range(ids) \ req[p].alreadyRegistered
         /\ \A i \in DOMAIN Registrations :
              i \in DOMAIN Registrations' /\ Registrations'[i] = Registrations[i]
         /\ req'[p].status = 200 => req'[p].count = Cardinality(added)

C22_RepeatedEventIds == [][\A p \in Procs : C22_InsertStep(p)]_vars

\* A batch registration naming twice an event its student does not have
\* has sent both rows, the insert was refused as a whole, and the student
\* has no registration for the event.
C22_Witness ==
  \E p \in Procs :
    /\ Done(p, "registerBatch")
    /\ Len(req[p].body.event_ids) = 2 /\ ~Distinct(req[p].body.event_ids)
    /\ req[p].newEventIds = req[p].body.event_ids
    /\ req[p].regErr = UniqueViolation /\ req[p].status = 500
    /\ req[p].wReg = {}
    /\ <<req[p].studentId, req[p].body.event_ids[1]>> \notin Pairs(Registrations)

====
